---- MODULE Spec2Model ----
(***************************************************************************)
(* LabelSpacePartitioningClassifier (skmultilearn/ensemble/partition.py).  *)
(*                                                                         *)
(* The instance is modelled by its attribute dictionary: `self` is a       *)
(* function from attribute names to values whose DOMAIN is the set of      *)
(* attributes that have been assigned.  Reading an attribute that is not   *)
(* in the DOMAIN is Python's AttributeError.  Attribute names are the      *)
(* source's, character for character: `model_count_` and `model_count`,    *)
(* `_label_count` and `label_count` are four different attributes.         *)
(*                                                                         *)
(* Python lists are sequences; a 0-based index i reads element i + 1.      *)
(* A matrix is [shape |-> <<rows, columns>>, data |-> [<<r, c>> |-> Int]]. *)
(* X is a well-formed feature matrix, of which only the row count matters. *)
(***************************************************************************)
EXTENDS Integers, Sequences, FiniteSets, TLC

VARIABLES self, outcome

vars == <<self, outcome>>

\* Largest number of columns of the training label matrix y.
MaxLabels == 2

\* Largest number of rows of the matrix X given to predict.
MaxRows == 2

NoError == "None"

\* The errors the clusterer's fit_predict may raise (spec 4.1, 7).
ClustererErrors == {"InvalidInput", "FitFailure"}

\* The values a group classifier may predict; nonzero() keeps 1 and 2.
PredValues == {0, 1, 2}

----------------------------------------------------------------------------
(* Python object and container primitives *)

HasAttr(obj, name) == name \in DOMAIN obj

SetAttr(obj, name, value) ==
    [a \in DOMAIN obj \cup {name} |-> IF a = name THEN value ELSE obj[a]]

\* sparse.lil_matrix((rows, columns), dtype=int): all zero.
lil_matrix(rows, columns) ==
    [shape |-> <<rows, columns>>,
     data  |-> [rc \in (0 .. rows - 1) \X (0 .. columns - 1) |-> 0]]

\* matrix.nonzero(): the coordinates of the non-zero entries, by row, then
\* by column.
nonzero(m) ==
    LET rows    == m.shape[1]
        columns == m.shape[2]
        coord(k) == <<(k - 1) \div columns, (k - 1) % columns>>
        all     == [k \in 1 .. rows * columns |-> coord(k)]
        keep(rc) == m.data[rc] # 0
    IN  SelectSeq(all, keep)

----------------------------------------------------------------------------
(* The clusterer and the base classifier: external collaborators *)

RECURSIVE Ascending(_)
\* The indices of S as an ascending list.
Ascending(S) ==
    IF S = {} THEN <<>>
    ELSE LET least == CHOOSE x \in S : \A y \in S : x <= y
         IN  <<least>> \o Ascending(S \ {least})

\* A group: a non-empty list of label indices of y.
Groups(y_cols) == {Ascending(S) : S \in (SUBSET (0 .. y_cols - 1)) \ {{}}}

RECURSIVE Cells(_)
\* The number of label indices a list of groups holds in total.
Cells(groups) ==
    IF groups = <<>> THEN 0 ELSE Len(Head(groups)) + Cells(Tail(groups))

\* What clusterer.fit_predict(X, y) may return: groups of indices of y's
\* columns, disjoint or overlapping, covering every label or not, holding at
\* most y.shape[1] indices in total.
Partitions(y_cols) ==
    {p \in UNION {[1 .. k -> Groups(y_cols)] : k \in 0 .. y_cols} :
        Cells(p) <= y_cols}

\* One call of clusterer.fit_predict(X, y): it raises, or returns a partition.
ClustererBehaviours(y_cols) ==
    {[raises |-> e] : e \in ClustererErrors}
        \cup {[returns |-> p] : p \in Partitions(y_cols)}

\* A base classifier fitted on the columns y[:, group].
Fitted(group) == [fitted_on |-> group]

\* What a fitted classifier's predict(X) may return for X of `rows` rows:
\* a matrix of one column per label it was fitted on, here the same value
\* in every entry.
ClassifierPredict(classifier, rows, value) ==
    [shape |-> <<rows, Len(classifier.fitted_on)>>,
     data  |-> [rc \in (0 .. rows - 1) \X (0 .. Len(classifier.fitted_on) - 1)
                    |-> value]]

\* The predictions of one predict call: one value per stored classifier.
PredictionChoices(obj) ==
    IF HasAttr(obj, "classifiers_")
    THEN [1 .. Len(obj["classifiers_"]) -> PredValues]
    ELSE {<<>>}

----------------------------------------------------------------------------
(* LabelSpacePartitioningClassifier *)

\* A constructor that also gives the counts read by predict a default.
Constructed_with_defaults ==
    [classifier     |-> "classifier",
     require_dense  |-> "None",
     clusterer      |-> "clusterer",
     copyable_attrs |-> <<"clusterer", "classifier", "require_dense">>,
     label_count    |-> 0,
     model_count    |-> 0]

\* __init__: the constructor arguments, and nothing of the trained state.
Constructed ==
    [classifier     |-> "classifier",
     require_dense  |-> "None",
     clusterer      |-> "clusterer",
     copyable_attrs |-> <<"clusterer", "classifier", "require_dense">>]

\* _generate_partition with the label count stored before the clusterer runs.
_generate_partition_count_first(obj, y_cols, clusterer) ==
    IF "raises" \in DOMAIN clusterer
    THEN [self |-> SetAttr(obj, "_label_count", y_cols),
          raised |-> clusterer.raises]
    ELSE [self |-> SetAttr(SetAttr(SetAttr(obj,
                       "_label_count", y_cols),
                       "partition_", clusterer.returns),
                       "model_count_", Len(clusterer.returns)),
          raised |-> NoError]

\* _generate_partition without the assignment of _label_count.
_generate_partition_no_label_count(obj, y_cols, clusterer) ==
    IF "raises" \in DOMAIN clusterer
    THEN [self |-> obj, raised |-> clusterer.raises]
    ELSE [self |-> SetAttr(SetAttr(obj,
                       "partition_", clusterer.returns),
                       "model_count_", Len(clusterer.returns)),
          raised |-> NoError]

\* _generate_partition(X, y), y of y_cols columns.  Line 142 calls the
\* clusterer first: when it raises, nothing has been assigned and the error
\* leaves the method as it is.  Otherwise lines 142-144 assign partition_,
\* model_count_ and _label_count.
_generate_partition(obj, y_cols, clusterer) ==
    IF "raises" \in DOMAIN clusterer
    THEN [self |-> obj, raised |-> clusterer.raises]
    ELSE [self |-> SetAttr(SetAttr(SetAttr(obj,
                       "partition_", clusterer.returns),
                       "model_count_", Len(clusterer.returns)),
                       "_label_count", y_cols),
          raised |-> NoError]

\* The inherited fit(X, y): partition generation first, then one base
\* classifier per group, fitted in sequence on y[:, group] and collected in
\* classifiers_.  fails_at = 0: every fit succeeds; fails_at = k > 0: the
\* base classifier's fit raises for group k, after groups 1 .. k-1.
fit(obj, y_cols, clusterer, fails_at) ==
    LET generated == _generate_partition(obj, y_cols, clusterer)
        after     == generated.self
        groups    == after["partition_"]
        count     == after["model_count_"]
        trained   == IF fails_at = 0 THEN count ELSE fails_at - 1
    IN  IF generated.raised # NoError
        THEN generated
        ELSE [self   |-> SetAttr(after, "classifiers_",
                            [i \in 1 .. trained |-> Fitted(groups[i])]),
              raised |-> IF fails_at = 0 THEN NoError ELSE "ClassifierError"]

RECURSIVE scatter(_, _, _)
\* Lines 116-117, for one model: for each non-zero (row, column) of its
\* predictions, result[row, partition_[model][column]] = 1.  A column the
\* group does not have, or a label index outside the result, is an IndexError.
scatter(result, group, coordinates) ==
    IF coordinates = <<>>
    THEN [raised |-> NoError, result |-> result]
    ELSE LET row    == Head(coordinates)[1]
             column == Head(coordinates)[2]
         IN  IF column >= Len(group)
             THEN [raised |-> "IndexError", result |-> result]
             ELSE LET label == group[column + 1]
                  IN  IF label >= result.shape[2]
                      THEN [raised |-> "IndexError", result |-> result]
                      ELSE scatter(
                             [result EXCEPT !.data[<<row, label>>] = 1],
                             group, Tail(coordinates))

RECURSIVE predict_models(_, _, _, _, _)
\* Lines 113-119: for model in range(model_count), from `model` on: the
\* model's classifier predicts, its non-zero coordinates are scattered into
\* result; after the last model, result is returned.
predict_models(obj, result, model, model_count, predictions) ==
    IF model >= model_count
    THEN [raised |-> NoError, returned |-> <<result>>]
    ELSE IF ~HasAttr(obj, "classifiers_")
    THEN [raised |-> "AttributeError", returned |-> <<>>]
    ELSE IF model >= Len(obj["classifiers_"])
    THEN [raised |-> "IndexError", returned |-> <<>>]
    ELSE LET coordinates ==
                 nonzero(ClassifierPredict(obj["classifiers_"][model + 1],
                             result.shape[1], predictions[model + 1]))
             merged ==
                 IF coordinates = <<>>
                 THEN [raised |-> NoError, result |-> result]
                 ELSE IF ~HasAttr(obj, "partition_")
                 THEN [raised |-> "AttributeError", result |-> result]
                 ELSE IF model >= Len(obj["partition_"])
                 THEN [raised |-> "IndexError", result |-> result]
                 ELSE scatter(result, obj["partition_"][model + 1],
                              coordinates)
         IN  IF merged.raised # NoError
             THEN [raised |-> merged.raised, returned |-> <<>>]
             ELSE predict_models(obj, merged.result, model + 1, model_count,
                                 predictions)

\* predict that takes the counts it does not find from the attributes
\* _generate_partition stores, and keeps them on the instance.
predict_keeping_counts(obj, rows, predictions) ==
    LET label_count == IF HasAttr(obj, "_label_count")
                       THEN obj["_label_count"] ELSE 0
        model_count == IF HasAttr(obj, "model_count_")
                       THEN obj["model_count_"] ELSE 0
        kept == SetAttr(SetAttr(obj, "label_count", label_count),
                        "model_count", model_count)
        done == predict_models(kept, lil_matrix(rows, label_count), 0,
                               model_count, predictions)
    IN  [self |-> kept, raised |-> done.raised, returned |-> done.returned]

\* predict(X), X of `rows` rows.  Line 111 reads self.label_count and line
\* 113 self.model_count; an attribute that was never assigned is an
\* AttributeError.  No line assigns an attribute of the instance.
predict(obj, rows, predictions) ==
    IF ~HasAttr(obj, "label_count")
    THEN [self |-> obj, raised |-> "AttributeError", returned |-> <<>>]
    ELSE IF ~HasAttr(obj, "model_count")
    THEN [self |-> obj, raised |-> "AttributeError", returned |-> <<>>]
    ELSE LET done == predict_models(obj,
                         lil_matrix(rows, obj["label_count"]), 0,
                         obj["model_count"], predictions)
         IN  [self |-> obj, raised |-> done.raised,
              returned |-> done.returned]

----------------------------------------------------------------------------
(* The calls a user of the instance makes *)

Init ==
    /\ self = Constructed
    /\ outcome = [op |-> "__init__", raised |-> NoError]

\* classifier.fit(X, y): any label matrix y, any behaviour of the clusterer
\* and of the base classifier's fit.
Fit ==
    \E y_cols \in 1 .. MaxLabels :
      \E clusterer \in ClustererBehaviours(y_cols) :
        \E fails_at \in 0 .. (IF "returns" \in DOMAIN clusterer
                              THEN Len(clusterer.returns) ELSE 0) :
          LET done == fit(self, y_cols, clusterer, fails_at)
          IN  /\ self' = done.self
              /\ outcome' = [op |-> "fit", y_cols |-> y_cols,
                             clusterer |-> clusterer,
                             raised |-> done.raised]

\* classifier.predict(X): any number of rows, any predictions of the stored
\* classifiers.
Predict ==
    \E rows \in 1 .. MaxRows :
      \E predictions \in PredictionChoices(self) :
        LET done == predict(self, rows, predictions)
        IN  /\ self' = done.self
            /\ outcome' = [op |-> "predict", rows |-> rows,
                           predictions |-> predictions,
                           raised |-> done.raised,
                           returned |-> done.returned]

Next == Fit \/ Predict

Spec == Init /\ [][Next]_vars

----------------------------------------------------------------------------
(* Vocabulary of the properties *)

\* The attributes a training call stores.
FitAttrs == {"partition_", "model_count_", "_label_count", "classifiers_"}

\* The attributes _generate_partition stores.
PartitionAttrs == {"partition_", "model_count_", "_label_count"}

\* The attributes that hold, or are read as, trained state.
TrainedAttrs == FitAttrs \cup {"label_count", "model_count"}

Restricted(obj, names) == [a \in names \cap DOMAIN obj |-> obj[a]]

PartitionState(obj) == Restricted(obj, PartitionAttrs)

TrainedState(obj) == Restricted(obj, TrainedAttrs)

\* No training call has stored anything.
Untrained(obj) == FitAttrs \cap DOMAIN obj = {}

\* Partition, counts and one classifier per group, all of one training call.
Trained(obj) ==
    /\ FitAttrs \subseteq DOMAIN obj
    /\ obj["model_count_"] = Len(obj["partition_"])
    /\ obj["classifiers_"] =
           [i \in 1 .. Len(obj["partition_"]) |-> Fitted(obj["partition_"][i])]

\* The groups of partition p that hold label l.
Owners(p, l) == {m \in 1 .. Len(p) : \E c \in 1 .. Len(p[m]) : p[m][c] = l}

\* The places of partition p that hold label l.
Places(p, l) ==
    UNION {{<<m, c>> : c \in {c \in 1 .. Len(p[m]) : p[m][c] = l}} :
              m \in 1 .. Len(p)}

\* p covers each label index 0 .. label_count - 1 exactly once.
TruePartition(p, label_count) ==
    \A l \in 0 .. label_count - 1 : Cardinality(Places(p, l)) = 1

\* The last call was predict and returned a rows x columns matrix.
Returned(rows, columns) ==
    /\ outcome.raised = NoError
    /\ outcome.returned # <<>>
    /\ outcome.returned[1].shape = <<rows, columns>>

----------------------------------------------------------------------------
(* Properties *)

\* C1: after fit with a partition that covers every label exactly once,
\* predict returns a matrix in which, for every row r, group m and local
\* column c, the entry (r, partition_[m][c]) is 1 exactly when group m's
\* classifier predicted a non-zero value at (r, c).
C1_PredictReproducesGroups ==
    (/\ outcome.op = "predict"
     /\ Trained(self)
     /\ TruePartition(self["partition_"], self["_label_count"]))
    => /\ Returned(outcome.rows, self["_label_count"])
       /\ \A r \in 0 .. outcome.rows - 1 :
            \A m \in 1 .. Len(self["partition_"]) :
              \A c \in 1 .. Len(self["partition_"][m]) :
                (outcome.returned[1].data[<<r, self["partition_"][m][c]>>] = 1)
                    <=> (outcome.predictions[m] # 0)

\* C2: predict on a trained instance returns a matrix whose entries are all
\* 0 or 1, and where two or more groups assert the same label for a row the
\* entry is exactly 1.
C2_OverlapMergesToOne ==
    (/\ outcome.op = "predict"
     /\ Trained(self)
     /\ \E l \in 0 .. self["_label_count"] - 1 :
          Cardinality({m \in Owners(self["partition_"], l) :
                          outcome.predictions[m] # 0}) >= 2)
    => /\ Returned(outcome.rows, self["_label_count"])
       /\ \A rc \in DOMAIN outcome.returned[1].data :
            /\ outcome.returned[1].data[rc] \in {0, 1}
            /\ Cardinality({m \in Owners(self["partition_"], rc[2]) :
                               outcome.predictions[m] # 0}) >= 2
                 => outcome.returned[1].data[rc] = 1

\* C3: when some label index below the label count is in no group, predict
\* returns normally and that label's column is 0 in every row.
C3_UncoveredColumnIsZero ==
    (/\ outcome.op = "predict"
     /\ Trained(self)
     /\ \E l \in 0 .. self["_label_count"] - 1 :
          Owners(self["partition_"], l) = {})
    => /\ Returned(outcome.rows, self["_label_count"])
       /\ \A rc \in DOMAIN outcome.returned[1].data :
            Owners(self["partition_"], rc[2]) = {}
                => outcome.returned[1].data[rc] = 0

\* C4: after fit, the label count predict reads is the one the training call
\* stored from y.shape[1], and predict returns a matrix of as many rows as X
\* and that many columns.
C4_ResultHasLabelCountColumns ==
    (outcome.op = "predict" /\ Trained(self))
    => /\ HasAttr(self, "label_count")
       /\ self["label_count"] = self["_label_count"]
       /\ Returned(outcome.rows, self["_label_count"])

\* C5: after fit, model_count_ is the number of groups of the stored
\* partition, and the model count predict iterates over is that number.
C5_ModelCountIsPartitionLength ==
    Trained(self)
    => /\ self["model_count_"] = Len(self["partition_"])
       /\ HasAttr(self, "model_count")
       /\ self["model_count"] = Len(self["partition_"])

\* C6: predict on an instance no training call has touched ends in an
\* AttributeError and returns no matrix.
C6_PredictUntrainedRaises ==
    (outcome.op = "predict" /\ Untrained(self))
    => (outcome.raised = "AttributeError" /\ outcome.returned = <<>>)

\* C6 witness: predict has been called on an untrained instance.
C6_Witness ==
    /\ outcome.op = "predict"
    /\ Untrained(self)
    /\ outcome.raised = "AttributeError"

\* C7: a fit that returns on an already trained instance leaves, as the
\* partition, model count and label count a following predict uses, exactly
\* its own clusterer output, that output's length and its y.shape[1].
C7_RefitReplacesWhatPredictUses ==
    [][(/\ Trained(self)
        /\ outcome'.op = "fit"
        /\ outcome'.raised = NoError)
       => /\ self'["partition_"] = outcome'.clusterer.returns
          /\ HasAttr(self', "model_count")
          /\ self'["model_count"] = Len(outcome'.clusterer.returns)
          /\ HasAttr(self', "label_count")
          /\ self'["label_count"] = outcome'.y_cols]_vars

\* C8 as stated: the instance is always untrained or trained; no state holds
\* the partition, model count and label count of one training call without
\* that call's classifiers.
C8_NoPartiallyTrainedState == Untrained(self) \/ Trained(self)

\* C8 as amended: partition_, model_count_ and _label_count are only ever
\* set together, by a fit whose clusterer returned, to that call's values;
\* when that fit returns, the classifiers are that call's, one per group;
\* when it fails in the per-group training, the three values stay stored.
C8_PartitionSetTogether ==
    [][IF outcome'.op = "fit" /\ "returns" \in DOMAIN outcome'.clusterer
       THEN /\ PartitionAttrs \subseteq DOMAIN self'
            /\ self'["partition_"] = outcome'.clusterer.returns
            /\ self'["model_count_"] = Len(outcome'.clusterer.returns)
            /\ self'["_label_count"] = outcome'.y_cols
            /\ outcome'.raised = NoError => Trained(self')
       ELSE PartitionState(self') = PartitionState(self)]_vars

\* C8 witness: a fit failed in the per-group training and left its own
\* partition stored without its classifiers.
C8_Witness ==
    /\ outcome.op = "fit"
    /\ outcome.raised = "ClassifierError"
    /\ self["partition_"] = outcome.clusterer.returns
    /\ self["_label_count"] = outcome.y_cols
    /\ ~Trained(self)

\* C9: when the clusterer raises during partition generation, the call
\* raises that same error and the stored partition, model count and label
\* count are what they were before the call (absent, or the previous fit's).
C9_ClustererFailureLeavesPartition ==
    [][(outcome'.op = "fit" /\ "raises" \in DOMAIN outcome'.clusterer)
       => /\ outcome'.raised = outcome'.clusterer.raises
          /\ PartitionState(self') = PartitionState(self)]_vars

\* C9 witness: the clusterer raised on a trained instance, whose partition
\* is still the previous fit's.
C9_Witness ==
    /\ outcome.op = "fit"
    /\ "raises" \in DOMAIN outcome.clusterer
    /\ outcome.raised = outcome.clusterer.raises
    /\ Trained(self)

====
